---- MODULE Spec2Model ----
(***************************************************************************)
(* Jump-panel bot (src/bot.py): the file-backed record store, the button   *)
(* renderer, panel creation (make_buttons) and removal (buttons_remove).   *)
(*                                                                         *)
(* Three specifications share the variables:                               *)
(*   SpecRender     the renderer applied to bounded inputs over a large    *)
(*                  guild (enough channels to pass the 25-button cap);     *)
(*   SpecRoundTrip  save_data(load_data()) applied to every file state;    *)
(*   Spec           the running process: startup, make_buttons,            *)
(*                  buttons_remove, channel deletion, crashes.             *)
(***************************************************************************)
EXTENDS Integers, Sequences, FiniteSets, TLC

VARIABLES
    guild,      \* the cached guild: [id, channels: id -> channel]
    call,       \* SpecRender: the last build_buttons_for call, with its snapshot
    DB,         \* the in-memory store (module global DB)
    file,       \* the backing file data.json
    phase,      \* "boot" (before line 47) | "running" | "failed" (import raised)
    mb,         \* the make_buttons invocation suspended at channel.send
    messages,   \* the host channel's messages: message id -> published rows
    nextId,     \* the number of messages the platform has created
    lastOp,     \* what the last handler did and replied
    ready,      \* bot.is_ready()
    loop,       \* the tasks.loop refresh_jump_messages: its running timers
    onReady,    \* on_ready handlers suspended at tree.sync
    tick,       \* the iteration of refresh_jump_messages in flight
    refresh,    \* the buttons_refresh invocation in flight
    deleted,    \* published messages that were deleted on the platform
    unregistered, \* message ids for which remove_jump_set_record returned True
    calm        \* the guild has stopped changing and the API has stopped failing

\* the state of the background loop and of the refresh command
bgVars == <<ready, loop, onReady, tick, refresh, deleted, unregistered, calm>>

vars == <<guild, call, DB, file, phase, mb, messages, nextId, lastOp,
          ready, loop, onReady, tick, refresh, deleted, unregistered, calm>>

----------------------------------------------------------------------------
(* Bounds of the model *)

\* channels of the large guild the renderer is exercised on
NumChan == 27
\* longest channel-id list handed to the renderer
MaxLen == 27
\* highest voice occupancy
MaxMembers == 1
\* messages the platform creates in one run of the model
MaxMsgs == 2

(* Program constants *)

\* buttons per row: split_rows(buttons, per_row=5)
PerRow == 5
\* rows kept: [:5]
MaxRows == 5

Min(a, b) == IF a < b THEN a ELSE b

----------------------------------------------------------------------------
(* Channels and guilds *)

\* no iteration of the loop and no buttons_refresh in flight, loop not started
TickIdle == [pc |-> "idle"]
RefreshIdle == [pc |-> "idle"]
BgInit ==
    /\ ready = FALSE
    /\ loop = [timers |-> 0, raised |-> FALSE, primed |-> FALSE]
    /\ onReady = 0
    /\ tick = TickIdle
    /\ refresh = RefreshIdle
    /\ deleted = {}
    /\ unregistered = {}
    /\ calm = FALSE

\* guild.get_channel returns None
NoChannel == [exists |-> FALSE, kind |-> "none", name |-> 0,
              category_id |-> 0, members |-> 0]

Channel(kind, name, category_id, members) ==
    [exists |-> TRUE, kind |-> kind, name |-> name,
     category_id |-> category_id, members |-> members]

\* def channel_jump_url(guild_id, channel_id)
channel_jump_url(guild_id, channel_id) ==
    [host |-> "discord.com", guild_id |-> guild_id, channel_id |-> channel_id]

\* def resolve_channel(guild, cid): guild.get_channel(cid)
resolve_channel(g, cid) ==
    IF cid \in DOMAIN g.channels THEN g.channels[cid] ELSE NoChannel

\* def is_under_category(ch, category_id)
is_under_category(ch, category_id) == ch.category_id = category_id

\* def vc_member_count(ch)
vc_member_count(ch) ==
    IF ch.kind = "voice" THEN ch.members
    ELSE IF ch.kind = "stage" THEN ch.members
    ELSE 0

\* def label_for_channel(ch): "#name", "<speaker> name (n)", or the bare name
label_for_channel(ch) ==
    IF ch.kind = "text"
    THEN [fmt |-> "#name", name |-> ch.name, n |-> 0]
    ELSE IF ch.kind \in {"voice", "stage"}
    THEN [fmt |-> "name (n)", name |-> ch.name, n |-> vc_member_count(ch)]
    ELSE [fmt |-> "name", name |-> ch.name, n |-> 0]

\* discord.ui.Button(label=label, style=link, url=url)
Button(label, url) == [label |-> label, style |-> "link", url |-> url]

----------------------------------------------------------------------------
(* The renderer *)

\* split_rows stepping by per_row + 1: rows one button too wide
SplitRowsWide(buttons, per_row) ==
    LET n == Len(buttons)
        w == per_row + 1
    IN [k \in 1..((n + w - 1) \div w) |->
           SubSeq(buttons, (k - 1) * w + 1, Min(k * w, n))]

\* def split_rows(buttons, per_row): buttons[i:i+per_row] for i in range(0, len, per_row)
split_rows(buttons, per_row) ==
    LET n == Len(buttons)
    IN [k \in 1..((n + per_row - 1) \div per_row) |->
           SubSeq(buttons, (k - 1) * per_row + 1, Min(k * per_row, n))]

\* the rows without the [:5] cut
TakeRowsAll(rows) == rows

\* rows = split_rows(...)[:5]
TakeRows(rows) == SubSeq(rows, 1, Min(MaxRows, Len(rows)))

\* the loop body without its "if not ch" branch
BuildStepKeepsMissing(g, acc, cid) ==
    LET ch == resolve_channel(g, cid)
    IN [buttons |-> Append(acc.buttons,
                           Button(label_for_channel(ch), channel_jump_url(g.id, cid))),
        ok_ids  |-> Append(acc.ok_ids, cid),
        ng_ids  |-> acc.ng_ids]

\* one pass of the loop "for cid in channel_ids" of build_buttons_for
BuildStep(g, acc, cid) ==
    LET ch == resolve_channel(g, cid)
    IN IF ~ch.exists
       THEN [acc EXCEPT !.ng_ids = Append(@, cid)]
       ELSE [buttons |-> Append(acc.buttons,
                                Button(label_for_channel(ch), channel_jump_url(g.id, cid))),
             ok_ids  |-> Append(acc.ok_ids, cid),
             ng_ids  |-> acc.ng_ids]

RECURSIVE BuildLoop(_, _, _, _)
BuildLoop(g, channel_ids, i, acc) ==
    IF i > Len(channel_ids) THEN acc
    ELSE BuildLoop(g, channel_ids, i + 1, BuildStep(g, acc, channel_ids[i]))

\* def build_buttons_for(guild, channel_ids) -> ("", rows, ok_ids, ng_ids)
build_buttons_for(g, channel_ids) ==
    LET acc == BuildLoop(g, channel_ids, 1,
                         [buttons |-> <<>>, ok_ids |-> <<>>, ng_ids |-> <<>>])
    IN [content |-> "",
        rows    |-> TakeRows(split_rows(acc.buttons, PerRow)),
        ok_ids  |-> acc.ok_ids,
        ng_ids  |-> acc.ng_ids]

RECURSIVE Concat(_)
Concat(rows) == IF rows = <<>> THEN <<>> ELSE Head(rows) \o Concat(Tail(rows))

\* def make_view_from_rows(rows): the view's children, row after row
make_view_from_rows(rows) == Concat(rows)

----------------------------------------------------------------------------
(* The record store: JSON values, the backing file, load and save *)

\* A JSON document as the program uses it: a dict whose "jump_sets" key is
\* missing, holds a list of records, or holds something else; or not a dict.
JsonVal(t, key, recs) == [t |-> t, key |-> key, recs |-> recs]
EmptyDict == JsonVal("dict", "absent", <<>>)
NonDict == JsonVal("other", "absent", <<>>)
BadKey == JsonVal("dict", "other", <<>>)
Store(recs) == JsonVal("dict", "list", recs)

\* The file: absent, unparsable text (empty, truncated, garbled), or a JSON
\* text; canon tells the text is byte for byte what json.dump(indent=2) writes.
AbsentFile == [kind |-> "absent", canon |-> FALSE, val |-> EmptyDict]
CorruptFile == [kind |-> "corrupt", canon |-> FALSE, val |-> EmptyDict]
Doc(val, canon) == [kind |-> "doc", canon |-> canon, val |-> val]

\* json.dump(data["jump_sets"], ..): the list written in place of the dict
JsonDumpListOnly(data) == Doc(NonDict, TRUE)

\* json.dump(data, f, ensure_ascii=False, indent=2)
json_dump(data) == Doc(data, TRUE)

\* def load_data(): {} when the file is absent or json.load raises
load_data(f) ==
    IF f.kind = "absent" THEN EmptyDict
    ELSE IF f.kind = "corrupt" THEN EmptyDict
    ELSE f.val

\* How one save_data call ends: the write completes; open() raises and the
\* file is untouched; the write raises after open(.., "w") truncated the file;
\* the process dies between the truncation and the end of the write.
SaveOutcomes == {"ok", "open_fail", "write_fail", "crash"}

\* save_data returning without having written anything
SaveDataKeepsFile(f, data, outcome) == f

\* def save_data(data): the file after the call
save_data(f, data, outcome) ==
    CASE outcome = "ok" -> json_dump(data)
      [] outcome = "open_fail" -> f
      [] outcome = "write_fail" -> CorruptFile
      [] outcome = "crash" -> CorruptFile

\* the file does not hold the records the process serves: an earlier write
\* of them failed
Stale(d, f) == d.recs # <<>> /\ load_data(f) # d

\* DB.setdefault("jump_sets", [])
setdefault(d) == IF d.key = "absent" THEN Store(<<>>) ELSE d

\* DB["jump_sets"] is a list of dicts
WellFormed(d) == d.t = "dict" /\ d.key = "list"

\* the dict appended by add_jump_set_record
Record(guild_id, message_channel_id, message_id, channel_ids, category_id) ==
    [guild_id |-> guild_id, message_channel_id |-> message_channel_id,
     message_id |-> message_id, channel_ids |-> channel_ids,
     category_id |-> category_id, description |-> "d", created_at |-> "utc"]

\* the record appended twice
AppendRecordTwice(d, rec) == [d EXCEPT !.recs = Append(Append(@, rec), rec)]

\* DB["jump_sets"].append({...})
AppendRecord(d, rec) == [d EXCEPT !.recs = Append(@, rec)]

\* the filter with its comparison inverted for every record: nothing is dropped
RemoveKeepsAll(d, message_id) == d

\* the filter with == in place of !=: only the matching records are kept
RemoveOthers(d, message_id) ==
    [d EXCEPT !.recs = SelectSeq(@, LAMBDA x : x.message_id = message_id)]

\* DB["jump_sets"] = [x for x in DB["jump_sets"] if x.get("message_id") != message_id]
RemoveMatching(d, message_id) ==
    [d EXCEPT !.recs = SelectSeq(@, LAMBDA x : x.message_id # message_id)]

MessageIds(d) == {d.recs[i].message_id : i \in 1..Len(d.recs)}

----------------------------------------------------------------------------
(* SpecRender: build_buttons_for over a guild of NumChan channels *)

\* channel c of the large guild: the kinds label_for_channel tells apart
BigChannel(c) ==
    CASE c % 4 = 1 -> Channel("text", c, 0, 0)
      [] c % 4 = 2 -> Channel("voice", c, 0, 0)
      [] c % 4 = 3 -> Channel("stage", c, 0, 1)
      [] OTHER     -> Channel("forum", c, 0, 0)

BigGuild == [id |-> 1, channels |-> [c \in 1..NumChan |-> BigChannel(c)]]

\* channels that get deleted, and the voice channel whose occupancy moves
RenderDeletable == {3, 5, 10}
RenderVoice == {2}

\* the channel-id lists handed to the renderer: ascending, descending,
\* scrambled (stride 7), and one with repeated ids
InputShapes == {"asc", "desc", "stride", "dup"}
InputList(n, shape) ==
    [i \in 1..n |->
        CASE shape = "asc"    -> i
          [] shape = "desc"   -> n + 1 - i
          [] shape = "stride" -> ((7 * i) % NumChan) + 1
          [] shape = "dup"    -> (i % 3) + 1]

NoCall == [made |-> FALSE]

\* on_guild_channel_delete: the cache drops the channel
ChannelDelete(c) ==
    /\ c \in DOMAIN guild.channels
    /\ guild.channels[c].exists
    /\ guild' = [guild EXCEPT !.channels[c] = NoChannel]

\* on_voice_state_update: a member joins or leaves a voice channel
VoiceUpdate(c, n) ==
    /\ c \in DOMAIN guild.channels
    /\ guild.channels[c].exists
    /\ guild.channels[c].kind \in {"voice", "stage"}
    /\ guild.channels[c].members # n
    /\ guild' = [guild EXCEPT !.channels[c].members = n]

RenderFrame ==
    /\ UNCHANGED <<DB, file, phase, mb, messages, nextId, lastOp>>
    /\ UNCHANGED bgVars

\* one call of build_buttons_for, kept with its arguments until it is consumed
RenderCall(n, shape) ==
    /\ ~call.made
    /\ call' = [made |-> TRUE, guild |-> guild, ids |-> InputList(n, shape),
                out |-> build_buttons_for(guild, InputList(n, shape))]
    /\ UNCHANGED guild
    /\ RenderFrame

\* the caller has used the result
RenderReturn ==
    /\ call.made
    /\ call' = NoCall
    /\ UNCHANGED guild
    /\ RenderFrame

RenderChannelDelete(c) ==
    ~call.made /\ ChannelDelete(c) /\ UNCHANGED call /\ RenderFrame

RenderVoiceUpdate(c, n) ==
    ~call.made /\ VoiceUpdate(c, n) /\ UNCHANGED call /\ RenderFrame

InitRender ==
    /\ guild = BigGuild
    /\ call = NoCall
    /\ DB = EmptyDict
    /\ file = AbsentFile
    /\ phase = "boot"
    /\ mb = [pc |-> "idle"]
    /\ messages = <<>>
    /\ nextId = 0
    /\ lastOp = [op |-> "none"]
    /\ BgInit

NextRender ==
    \/ \E n \in 0..MaxLen, shape \in InputShapes : RenderCall(n, shape)
    \/ RenderReturn
    \/ \E c \in RenderDeletable : RenderChannelDelete(c)
    \/ \E c \in RenderVoice, n \in 0..MaxMembers : RenderVoiceUpdate(c, n)

SpecRender == InitRender /\ [][NextRender]_vars

----------------------------------------------------------------------------
(* Renderer claims, stated against the input list and the snapshot alone *)

NoDuplicates(ids) == \A i, j \in 1..Len(ids) : ids[i] = ids[j] => i = j

Resolves(g, cid) == cid \in DOMAIN g.channels /\ g.channels[cid].exists

\* the ids of the list that resolve, in input order
ResolvingIds(g, ids) == SelectSeq(ids, LAMBDA c : Resolves(g, c))

\* the ids the buttons of the rows target, read row by row
ButtonTargets(rows) ==
    LET flat == make_view_from_rows(rows)
    IN [i \in 1..Len(flat) |-> flat[i].url.channel_id]

\* C1: for a list without duplicates and with at most 25 entries the rows
\* hold exactly one button per resolving id, in input order, each button
\* linking to its id in this guild; at most 5 rows, at most 5 buttons a row.
C1_OneButtonPerValidId ==
    (call.made /\ NoDuplicates(call.ids) /\ Len(call.ids) <= PerRow * MaxRows) =>
        LET rows == call.out.rows
            flat == make_view_from_rows(rows)
            want == ResolvingIds(call.guild, call.ids)
        IN /\ ButtonTargets(rows) = want
           /\ \A i \in 1..Len(flat) :
                 /\ flat[i].url = channel_jump_url(call.guild.id, want[i])
                 /\ flat[i].label = label_for_channel(call.guild.channels[want[i]])
           /\ Cardinality({want[i] : i \in 1..Len(want)}) = Len(flat)
           /\ Len(rows) <= MaxRows
           /\ \A r \in 1..Len(rows) : Len(rows[r]) >= 1 /\ Len(rows[r]) <= PerRow

\* a list of 20 or more distinct ids, some missing, rendered over several rows
C1_Witness ==
    /\ call.made
    /\ NoDuplicates(call.ids)
    /\ Len(call.ids) = PerRow * MaxRows
    /\ Len(call.out.ng_ids) = 2
    /\ Len(call.out.rows) = MaxRows
    /\ call.ids[1] > call.ids[2]

\* C2: when more than 25 ids of the list resolve, the rows hold exactly 25
\* buttons, those of the first 25 resolving ids in input order.
C2_CapAt25 ==
    (call.made /\ Len(ResolvingIds(call.guild, call.ids)) > PerRow * MaxRows) =>
        /\ Len(make_view_from_rows(call.out.rows)) = PerRow * MaxRows
        /\ ButtonTargets(call.out.rows)
             = SubSeq(ResolvingIds(call.guild, call.ids), 1, PerRow * MaxRows)
        /\ Len(call.out.rows) = MaxRows

C2_Witness ==
    /\ call.made
    /\ Len(ResolvingIds(call.guild, call.ids)) = PerRow * MaxRows + 2
    /\ Len(make_view_from_rows(call.out.rows)) = PerRow * MaxRows

\* C3: an id that does not resolve in the snapshot is in the invalid list,
\* is not in the valid list, and no button of any row targets it.
C3_MissingIsInvalid ==
    call.made =>
        \A i \in 1..Len(call.ids) :
            ~Resolves(call.guild, call.ids[i]) =>
                /\ \E k \in 1..Len(call.out.ng_ids) : call.out.ng_ids[k] = call.ids[i]
                /\ \A k \in 1..Len(call.out.ok_ids) : call.out.ok_ids[k] # call.ids[i]
                /\ \A r \in 1..Len(call.out.rows) : \A k \in 1..Len(call.out.rows[r]) :
                      call.out.rows[r][k].url.channel_id # call.ids[i]

C3_Witness ==
    /\ call.made
    /\ \E i \in 1..Len(call.ids) : ~Resolves(call.guild, call.ids[i])
    /\ Len(call.out.ok_ids) > 0
    /\ Len(call.out.ng_ids) > 1

----------------------------------------------------------------------------
(* Spec: the running process *)

\* The guild the commands run in: channel 1 (text) and 2 (voice) under
\* category 5, channel 3 (text) under no category. No channel has id 9.
SmallGuild ==
    [id |-> 1,
     channels |-> (1 :> Channel("text", 1, 5, 0)) @@ (2 :> Channel("voice", 2, 5, 0))
               @@ (3 :> Channel("text", 3, 0, 0)) @@ (5 :> Channel("category", 5, 0, 0))]

\* interaction.channel, where the panel is published
HostChannel == 1

\* channels that get deleted while the process runs
Deletable == {2}

\* category_id arguments: the category, a text channel, an unknown id
CategoryArgs == {5, 1, 9}

\* channel_ids arguments (after the split and int conversion)
ChannelIdArgs == {<<>>, <<3, 9>>, <<1, 9, 2>>, <<2, 3, 1>>}

\* records a previous run left in the file, with the ids of their messages
OldIds == {7, 8}
OldRecord(m) == Record(1, HostChannel, m, <<1, 2>>, 5)

\* what data.json may hold when the process starts
InitFiles ==
    {AbsentFile, CorruptFile,
     Doc(NonDict, FALSE), Doc(BadKey, FALSE), Doc(EmptyDict, TRUE),
     Doc(Store(<<OldRecord(7)>>), FALSE),
     Doc(Store(<<OldRecord(7), OldRecord(8)>>), TRUE)}

Idle == [pc |-> "idle"]

Init ==
    /\ guild = SmallGuild
    /\ call = NoCall
    /\ DB = EmptyDict
    /\ file \in InitFiles
    /\ phase = "boot"
    /\ mb = Idle
    /\ messages = <<>>
    /\ nextId = 0
    /\ lastOp = [op |-> "none"]
    /\ BgInit

\* DB = load_data(); DB.setdefault("jump_sets", []) at import: setdefault
\* raises AttributeError when the document is not a dict
Startup ==
    /\ phase = "boot"
    /\ LET d == load_data(file)
       IN IF d.t # "dict"
          THEN /\ phase' = "failed"
               /\ DB' = d
               /\ lastOp' = [op |-> "startup", result |-> "raised"]
          ELSE /\ phase' = "running"
               /\ DB' = setdefault(d)
               /\ lastOp' = [op |-> "startup", result |-> "ok"]
    /\ UNCHANGED <<guild, call, file, mb, messages, nextId>>
    /\ UNCHANGED bgVars

\* the process is killed and started again; the platform keeps its messages
Crash ==
    /\ phase = "running"
    /\ phase' = "boot"
    /\ DB' = EmptyDict
    /\ mb' = Idle
    /\ lastOp' = [op |-> "crash", in_save |-> FALSE]
    /\ UNCHANGED <<guild, call, file, messages, nextId>>
    /\ UNCHANGED bgVars

\* the process dies inside save_data(data), after open(.., "w")
CrashInSave(data) ==
    /\ phase' = "boot"
    /\ DB' = EmptyDict
    /\ mb' = Idle
    /\ file' = save_data(file, data, "crash")
    /\ lastOp' = [op |-> "crash", in_save |-> TRUE, prev |-> file,
                  new |-> json_dump(data)]

\* the category check reduced to "the id resolves"
IsCategoryLoose(g, cat_id) == resolve_channel(g, cat_id).exists

\* isinstance(guild.get_channel(cat_id), discord.CategoryChannel)
IsCategory(g, cat_id) ==
    LET category == resolve_channel(g, cat_id)
    IN category.exists /\ category.kind = "category"

\* "ch and is_under_category(ch, cat_id)" of the filter loop
Allowed(g, cat_id, cid) ==
    LET ch == resolve_channel(g, cid)
    IN ch.exists /\ is_under_category(ch, cat_id)

\* make_buttons called outside a guild, or with arguments int() rejects:
\* the command replies and returns before it looks at the guild
MakeButtonsBadArgs(why) ==
    /\ phase = "running"
    /\ mb = Idle
    /\ why \in {"not_in_guild", "category_not_numeric", "ids_not_numeric"}
    /\ lastOp' = [op |-> "make_buttons", result |-> why]
    /\ UNCHANGED <<guild, call, DB, file, phase, mb, messages, nextId>>
    /\ UNCHANGED bgVars

\* make_buttons with numeric arguments, up to "await interaction.channel.send":
\* the category check, the category filter and the render. An error reply
\* ends the command.
MakeButtons(cat_id, ids) ==
    /\ phase = "running"
    /\ mb = Idle
    /\ nextId < MaxMsgs
    /\ LET input == [cat_id |-> cat_id, ids |-> ids]
           filtered == SelectSeq(ids, LAMBDA c : Allowed(guild, cat_id, c))
           skipped == SelectSeq(ids, LAMBDA c : ~Allowed(guild, cat_id, c))
           out == build_buttons_for(guild, filtered)
           Reply(r) == /\ lastOp' = [op |-> "make_buttons", result |-> r, input |-> input]
                       /\ UNCHANGED mb
       IN IF ~IsCategory(guild, cat_id) THEN Reply("invalid_category")
          ELSE IF filtered = <<>> THEN Reply("no_valid_channels")
          ELSE /\ mb' = [pc |-> "sending", input |-> input, guild |-> guild,
                         skipped |-> skipped, rows |-> out.rows,
                         ok_ids |-> out.ok_ids, ng_ids |-> out.ng_ids]
               /\ UNCHANGED lastOp
    /\ UNCHANGED <<guild, call, DB, file, phase, messages, nextId>>
    /\ UNCHANGED bgVars

\* the except branch falling through to add_jump_set_record
MakeButtonsSendFailedStillRecords ==
    /\ phase = "running"
    /\ mb.pc = "sending"
    /\ mb' = Idle
    /\ DB.key = "list"
    /\ DB' = AppendRecord(DB, Record(mb.guild.id, HostChannel, nextId + 1, mb.ok_ids,
                                     mb.input.cat_id))
    /\ file' = save_data(file, DB', "ok")
    /\ lastOp' = [op |-> "make_buttons", result |-> "publish_failed", input |-> mb.input]
    /\ UNCHANGED <<guild, call, phase, messages, nextId>>
    /\ UNCHANGED bgVars

\* interaction.channel.send raises: the failure is replied, nothing is stored
MakeButtonsSendFailed ==
    /\ phase = "running"
    /\ mb.pc = "sending"
    /\ mb' = Idle
    /\ lastOp' = [op |-> "make_buttons", result |-> "publish_failed", input |-> mb.input]
    /\ UNCHANGED <<guild, call, DB, file, phase, messages, nextId>>
    /\ UNCHANGED bgVars

\* the raw requested ids passed in place of ok_ids
RecordedIdsRaw(m) == m.input.ids

\* the channel_ids argument of the add_jump_set_record call in make_buttons
RecordedIds(m) == m.ok_ids

\* interaction.channel.send returns the new message; add_jump_set_record
\* appends the record and saves; the reply names the skipped ids
MakeButtonsSent(outcome) ==
    /\ phase = "running"
    /\ mb.pc = "sending"
    /\ nextId' = nextId + 1
    /\ messages' = Append(messages, [view |-> make_view_from_rows(mb.rows)])
    /\ LET rec == Record(mb.guild.id, HostChannel, nextId + 1, RecordedIds(mb),
                         mb.input.cat_id)
           reported == {mb.skipped[i] : i \in 1..Len(mb.skipped)}
                         \cup {mb.ng_ids[i] : i \in 1..Len(mb.ng_ids)}
       IN IF DB.key # "list"
          THEN \* DB["jump_sets"].append raises: the message stays, unregistered
               /\ outcome = "ok"
               /\ mb' = Idle
               /\ lastOp' = [op |-> "make_buttons", result |-> "store_error",
                             input |-> mb.input]
               /\ UNCHANGED <<DB, file, phase>>
          ELSE IF outcome = "crash"
          THEN CrashInSave(AppendRecord(DB, rec))
          ELSE /\ DB' = AppendRecord(DB, rec)
               /\ file' = save_data(file, AppendRecord(DB, rec), outcome)
               /\ mb' = Idle
               /\ lastOp' = [op |-> "make_buttons", result |-> "ok", input |-> mb.input,
                             guild |-> mb.guild, message_id |-> nextId + 1,
                             ok_ids |-> mb.ok_ids, reported |-> reported,
                             record |-> rec, outcome |-> outcome,
                             stale |-> Stale(DB, file)]
               /\ UNCHANGED phase
    /\ UNCHANGED <<guild, call>>
    /\ UNCHANGED bgVars

\* buttons_remove by a caller who is not admin or owner, or with a
\* message_id int() rejects: the command replies and returns
ButtonsRemoveRefused(why) ==
    /\ phase = "running"
    /\ why \in {"forbidden", "not_numeric"}
    /\ lastOp' = [op |-> "buttons_remove", result |-> why]
    /\ UNCHANGED <<guild, call, DB, file, phase, mb, messages, nextId>>
    /\ UNCHANGED bgVars

\* def remove_jump_set_record(message_id), with the reply of buttons_remove
RemoveRecord(mid, outcome) ==
    /\ phase = "running"
    /\ LET after == RemoveMatching(DB, mid)
           removed == Len(DB.recs) # Len(after.recs)
       IN IF DB.key # "list"
          THEN \* len(DB["jump_sets"]) raises
               /\ outcome = "ok"
               /\ lastOp' = [op |-> "buttons_remove", result |-> "store_error",
                             message_id |-> mid]
               /\ UNCHANGED <<DB, file, phase, mb>>
          ELSE IF ~removed
          THEN /\ outcome = "ok"
               /\ DB' = after
               /\ lastOp' = [op |-> "buttons_remove", result |-> "done",
                             message_id |-> mid, ret |-> FALSE, outcome |-> "none"]
               /\ UNCHANGED <<file, phase, mb>>
          ELSE IF outcome = "crash"
          THEN CrashInSave(after)
          ELSE /\ DB' = after
               /\ file' = save_data(file, after, outcome)
               /\ lastOp' = [op |-> "buttons_remove", result |-> "done",
                             message_id |-> mid, ret |-> TRUE, outcome |-> outcome,
                             stale |-> Stale(DB, file)]
               /\ UNCHANGED <<phase, mb>>
    /\ UNCHANGED <<guild, call, messages, nextId>>

\* buttons_remove by an admin, nothing else in flight
ButtonsRemove(mid, outcome) == RemoveRecord(mid, outcome) /\ UNCHANGED bgVars

\* a channel of the guild is deleted
GuildChannelDelete(c) ==
    /\ phase = "running"
    /\ ChannelDelete(c)
    /\ UNCHANGED <<call, DB, file, phase, mb, messages, nextId, lastOp>>
    /\ UNCHANGED bgVars

Next ==
    \/ Startup
    \/ Crash
    \/ \E why \in {"not_in_guild", "category_not_numeric", "ids_not_numeric"} :
          MakeButtonsBadArgs(why)
    \/ \E cat_id \in CategoryArgs, ids \in ChannelIdArgs : MakeButtons(cat_id, ids)
    \/ MakeButtonsSendFailed
    \/ \E outcome \in SaveOutcomes : MakeButtonsSent(outcome)
    \/ \E why \in {"forbidden", "not_numeric"} : ButtonsRemoveRefused(why)
    \/ \E mid \in (1..MaxMsgs) \cup OldIds, outcome \in SaveOutcomes :
          ButtonsRemove(mid, outcome)
    \/ \E c \in Deletable : GuildChannelDelete(c)

Spec == Init /\ [][Next]_vars

----------------------------------------------------------------------------
(* SpecRoundTrip: save_data(load_data()) applied to the backing file *)

\* records per stored collection
MaxFileRecs == 2

FileRecords == {Record(1, HostChannel, m, chs, 5) : m \in OldIds, chs \in {<<1>>, <<1, 2>>}}

RoundTripFiles ==
    {AbsentFile, CorruptFile}
      \cup {Doc(v, c) : v \in {NonDict, BadKey, EmptyDict}, c \in BOOLEAN}
      \cup {Doc(Store(r), c) : r \in UNION {[1..n -> FileRecords] : n \in 0..MaxFileRecs},
                               c \in BOOLEAN}

InitRoundTrip ==
    /\ guild = SmallGuild
    /\ call = NoCall
    /\ DB = EmptyDict
    /\ file \in RoundTripFiles
    /\ phase = "boot"
    /\ mb = Idle
    /\ messages = <<>>
    /\ nextId = 0
    /\ lastOp = [op |-> "none"]
    /\ BgInit

\* save_data(load_data()) with nothing changed in between
RoundTrip(outcome) ==
    /\ file' = save_data(file, load_data(file), outcome)
    /\ lastOp' = [op |-> "round_trip", before |-> file, outcome |-> outcome]
    /\ UNCHANGED <<guild, call, DB, phase, mb, messages, nextId>>
    /\ UNCHANGED bgVars

NextRoundTrip == \E outcome \in SaveOutcomes : RoundTrip(outcome)

SpecRoundTrip == InitRoundTrip /\ [][NextRoundTrip]_vars

----------------------------------------------------------------------------
(* Claims about panel creation *)

LastRecord(d) == d.recs[Len(d.recs)]

Elems(seq) == {seq[i] : i \in 1..Len(seq)}

\* C4: when make_buttons completes, the record appended to the store (and,
\* when the write completed, the file) has channel_ids equal to the
\* renderer's valid list: the requested ids that resolve under the category,
\* in input order. Every other requested id, a missing one in particular, is
\* reported as skipped and is not in the record. When every resolving id is
\* under the category, the valid list is exactly the resolving ids.
C4_RecordHoldsValidIds ==
    (lastOp.op = "make_buttons" /\ lastOp.result = "ok") =>
        LET ids == lastOp.input.ids
            g == lastOp.guild
            valid == SelectSeq(ids, LAMBDA c :
                         Resolves(g, c) /\ g.channels[c].category_id = lastOp.input.cat_id)
            stored == LastRecord(DB)
        IN /\ lastOp.ok_ids = valid
           /\ stored.channel_ids = valid
           /\ stored.message_id = lastOp.message_id
           /\ lastOp.reported = Elems(ids) \ Elems(valid)
           /\ \A i \in 1..Len(ids) :
                 ~Resolves(g, ids[i]) =>
                     ids[i] \in lastOp.reported /\ ids[i] \notin Elems(stored.channel_ids)
           /\ (\A i \in 1..Len(ids) :
                  Resolves(g, ids[i]) => g.channels[ids[i]].category_id = lastOp.input.cat_id)
                 => valid = ResolvingIds(g, ids)
           /\ lastOp.outcome = "ok" =>
                 /\ load_data(file).key = "list"
                 /\ LastRecord(load_data(file)) = stored

\* the scenario of the claim: three ids, the middle one missing
C4_Witness ==
    /\ lastOp.op = "make_buttons"
    /\ lastOp.result = "ok"
    /\ lastOp.outcome = "ok"
    /\ lastOp.input.ids = <<1, 9, 2>>
    /\ lastOp.ok_ids = <<1, 2>>
    /\ lastOp.reported = {9}
    /\ LastRecord(load_data(file)).channel_ids = <<1, 2>>

\* C5: every record of the store, in memory and in the file, that this
\* program run added carries the id of a message a successful publish
\* returned, and there are no more such records than published messages: a
\* failed publish appends nothing.
C5_NoRecordWithoutMessage ==
    LET Published == 1..Len(messages)
        Backed(d) ==
            /\ \A i \in 1..Len(d.recs) : d.recs[i].message_id \in OldIds \cup Published
            /\ Len(SelectSeq(d.recs, LAMBDA x : x.message_id \notin OldIds)) <= Len(messages)
    IN /\ phase = "running" => Backed(DB)
       /\ Backed(load_data(file))

\* a publish failed after an earlier panel was published and registered
C5_Witness ==
    /\ lastOp.op = "make_buttons"
    /\ lastOp.result = "publish_failed"
    /\ Len(messages) = 1
    /\ 1 \in MessageIds(DB)

CategoryResolves(g, c) ==
    c \in DOMAIN g.channels /\ g.channels[c].exists /\ g.channels[c].kind = "category"

\* a step in which make_buttons, called with numeric arguments, runs up to its
\* error reply or up to the publish
MakeButtonsStep ==
    /\ mb = Idle
    /\ \/ mb'.pc = "sending"
       \/ /\ lastOp' # lastOp
          /\ lastOp'.op = "make_buttons"
          /\ lastOp'.result \in {"invalid_category", "no_valid_channels"}

\* C6: make_buttons replies invalid-category when the category id does not
\* resolve to a category channel, and no-valid-channels when it does but no
\* requested id resolves to a channel under it; in both cases no publish is
\* issued and the store, in memory and on disk, is unchanged.
C6_ValidationErrors ==
    [][MakeButtonsStep =>
        LET input == IF mb'.pc = "sending" THEN mb'.input ELSE lastOp'.input
            noneUnder == \A i \in 1..Len(input.ids) :
                            ~(/\ Resolves(guild, input.ids[i])
                              /\ guild.channels[input.ids[i]].category_id = input.cat_id)
            Refused(r) == /\ lastOp'.op = "make_buttons"
                          /\ lastOp'.result = r
                          /\ mb' = Idle
                          /\ UNCHANGED <<DB, file, messages, nextId>>
        IN /\ ~CategoryResolves(guild, input.cat_id) => Refused("invalid_category")
           /\ (CategoryResolves(guild, input.cat_id) /\ noneUnder)
                 => Refused("no_valid_channels")
           /\ (CategoryResolves(guild, input.cat_id) /\ ~noneUnder) => mb'.pc = "sending"
      ]_vars

\* the category id is a text channel's, with a registered panel in the store
C6_Witness ==
    /\ lastOp.op = "make_buttons"
    /\ lastOp.result = "invalid_category"
    /\ lastOp.input.cat_id = 1
    /\ lastOp.input.ids = <<1, 9, 2>>
    /\ Len(DB.recs) > 0
    /\ Len(messages) > 0

----------------------------------------------------------------------------
(* Claims about the store *)

\* a step in which remove_jump_set_record(message_id) returns
RemoveStep ==
    /\ lastOp' # lastOp
    /\ lastOp'.op = "buttons_remove"
    /\ lastOp'.result = "done"

\* C7 as stated: false and no write for an id no record carries; true for an
\* id a record carries, and then a load of the file yields no record with it.
C7_AsStated ==
    [][RemoveStep =>
        IF lastOp'.message_id \notin MessageIds(DB)
        THEN ~lastOp'.ret /\ file' = file
        ELSE lastOp'.ret /\ lastOp'.message_id \notin MessageIds(load_data(file'))
      ]_vars

\* C7 (amended): false, no write and no change for an id no record carries;
\* true for an id a record carries, the in-memory collection then holds no
\* record with it, and a load of the file yields none either unless open()
\* failed in save_data, in which case the file is left as it was.
C7_RemoveReturnsAndPersists ==
    [][RemoveStep =>
        IF lastOp'.message_id \notin MessageIds(DB)
        THEN ~lastOp'.ret /\ file' = file /\ DB' = DB
        ELSE /\ lastOp'.ret
             /\ lastOp'.message_id \notin MessageIds(DB')
             /\ \A m \in MessageIds(DB) \ {lastOp'.message_id} : m \in MessageIds(DB')
             /\ IF lastOp'.outcome = "open_fail"
                THEN file' = file
                ELSE lastOp'.message_id \notin MessageIds(load_data(file'))
             /\ lastOp'.outcome = "ok" => load_data(file') = DB'
      ]_vars

\* a present id was removed, the write completed, another record remains
C7_Witness ==
    /\ lastOp.op = "buttons_remove"
    /\ lastOp.result = "done"
    /\ lastOp.ret
    /\ lastOp.outcome = "ok"
    /\ lastOp.message_id \notin MessageIds(load_data(file))
    /\ Len(load_data(file).recs) > 0

\* C8: after a crash inside save_data the file holds the complete previous
\* document or the complete new one.
C8_AtomicSave ==
    (lastOp.op = "crash" /\ lastOp.in_save) => file \in {lastOp.prev, lastOp.new}

C10_StartupNeverFails ==
    /\ phase # "failed"
    /\ phase = "running" => WellFormed(DB)
    /\ (lastOp.op = "startup" /\ file.kind \in {"absent", "corrupt"}) => DB = Store(<<>>)

----------------------------------------------------------------------------
(* The reconciler: on_ready, the loop refresh_jump_messages and *)
(* edit_jump_message, one action per stretch of code between two awaits *)

\* on_ready handlers suspended at tree.sync at the same time
MaxReady == 2

\* tasks.Loop.is_running()
is_running(l) == l.timers > 0

\* tasks.Loop.start(): RuntimeError when the task is already launched
start(l) ==
    IF l.timers > 0
    THEN [l EXCEPT !.raised = TRUE]
    ELSE [l EXCEPT !.timers = @ + 1]

\* start() called without asking is_running() first
StartLoopUnguarded(l) == start(l)

\* if not refresh_jump_messages.is_running(): refresh_jump_messages.start()
StartLoop(l) == IF is_running(l) THEN l ELSE start(l)

\* isinstance(ch, (discord.TextChannel, discord.Thread))
IsMessageChannel(ch) == ch.kind \in {"text", "thread"}

\* ch.fetch_message(message_id) and msg.edit can only succeed for a message
\* the platform still has
MessageExists(m) == m \in 1..Len(messages) /\ m \notin deleted

\* how edit_jump_message or the loop body ended for one record
Entry(rec, result) ==
    [message_id |-> rec.message_id, guild_id |-> rec.guild_id, result |-> result]

Failures == {"no_guild", "no_channel", "fetch_failed", "edit_failed"}

\* the loop gives up at the first record that fails
AfterRecordAbort(idx, n, result) == IF result = "edited" THEN idx + 1 ELSE n + 1

\* continue / the end of the loop body: the iterator moves to the next record
AfterRecord(idx, n, result) == idx + 1

\* The loop over the records from position idx up to the next await: a record
\* of another guild (bot.get_guild is None; guild_id != guild.id) and a
\* record whose host channel is missing or not a text channel are passed
\* over; the loop stops at the first record for which fetch_message is awaited
\* or at the end of the list.
RECURSIVE RunFrom(_, _, _, _)
RunFrom(recs, idx, log, g) ==
    IF idx > Len(recs)
    THEN [pc |-> "end", idx |-> idx, log |-> log]
    ELSE LET rec == recs[idx]
         IN IF rec.guild_id # g.id
            THEN RunFrom(recs, AfterRecord(idx, Len(recs), "no_guild"),
                         Append(log, Entry(rec, "no_guild")), g)
            ELSE IF ~IsMessageChannel(resolve_channel(g, rec.message_channel_id))
            THEN RunFrom(recs, AfterRecord(idx, Len(recs), "no_channel"),
                         Append(log, Entry(rec, "no_channel")), g)
            ELSE [pc |-> "fetching", idx |-> idx, log |-> log]

\* msg.edit is acknowledged and the message keeps its view
ApplyEditKeepsView(msgs, m, rows) == msgs

\* msg.edit(view=make_view_from_rows(rows)) succeeded
ApplyEdit(msgs, m, rows) == [msgs EXCEPT ![m] = [view |-> make_view_from_rows(rows)]]

\* the other pass applied its edit to the message this pass has rendered and
\* is about to edit: the two edits overlap
NoteRace(task, m, rows) ==
    IF task.pc = "editing" /\ task.rec.message_id = m
    THEN [task EXCEPT !.raced = TRUE, !.other = rows]
    ELSE task

\* a pass suspended at fetch_message for rec, the record at idx of its list;
\* live: the list is the one DB["jump_sets"] is bound to, else recs holds it;
\* gone: the message ids unregistered before the pass began
Fetching(rec, recs, idx, log, live, count, gone) ==
    [pc |-> "fetching", rec |-> rec, recs |-> recs, idx |-> idx, log |-> log,
     rows |-> <<>>, live |-> live, count |-> count, gone |-> gone,
     raced |-> FALSE, other |-> <<>>]

\* the Gateway reports READY (again after a reconnect): on_ready is
\* dispatched and suspends at tree.sync
OnReady ==
    /\ phase = "running"
    /\ onReady < MaxReady
    /\ ready' = TRUE
    /\ onReady' = onReady + 1
    /\ lastOp' = [op |-> "on_ready", step |-> "sync"]
    /\ UNCHANGED <<guild, call, DB, file, phase, mb, messages, nextId>>
    /\ UNCHANGED <<loop, tick, refresh, deleted, unregistered, calm>>

\* tree.sync returned or raised (the exception is logged): the loop is started
OnReadySynced ==
    /\ phase = "running"
    /\ onReady > 0
    /\ onReady' = onReady - 1
    /\ loop' = StartLoop(loop)
    /\ lastOp' = [op |-> "on_ready", step |-> "start", was_running |-> is_running(loop)]
    /\ UNCHANGED <<guild, call, DB, file, phase, mb, messages, nextId>>
    /\ UNCHANGED <<ready, tick, refresh, deleted, unregistered, calm>>

\* the connection to the Gateway is lost: bot.is_ready() is False until the
\* next READY
Disconnect ==
    /\ phase = "running"
    /\ ready
    /\ ~calm
    /\ ready' = FALSE
    /\ UNCHANGED <<guild, call, DB, file, phase, mb, messages, nextId, lastOp>>
    /\ UNCHANGED <<loop, onReady, tick, refresh, deleted, unregistered, calm>>

\* before_refresh_loop: await bot.wait_until_ready() before the first iteration
BeforeLoop ==
    /\ phase = "running"
    /\ is_running(loop)
    /\ ~loop.primed
    /\ ready
    /\ loop' = [loop EXCEPT !.primed = TRUE]
    /\ lastOp' = [op |-> "before_loop"]
    /\ UNCHANGED <<guild, call, DB, file, phase, mb, messages, nextId>>
    /\ UNCHANGED <<ready, onReady, tick, refresh, deleted, unregistered, calm>>

\* what a step of a pass did, for the record it was about
StepDone(op, task, result, r, recs, count) ==
    [op |-> op, step |-> result, message_id |-> task.rec.message_id,
     rows |-> task.rows, late |-> task.rec.message_id \in unregistered,
     known |-> task.rec.message_id \in task.gone,
     raced |-> task.raced, other |-> task.other,
     current |-> build_buttons_for(guild, task.rec.channel_ids).rows,
     ended |-> r.pc = "end", recs |-> recs, log |-> r.log, count |-> count]

\* an API call of the pass raises only while the platform misbehaves or the
\* message is gone, and succeeds only on a message the platform still has
ApiOutcome(ok, m) ==
    /\ ok => MessageExists(m)
    /\ ~ok => (~calm \/ ~MessageExists(m))

\* One iteration of refresh_jump_messages begins: nothing is done before the
\* platform is ready; else the records are copied and the loop runs to the
\* first fetch_message.
TickStart ==
    /\ phase = "running"
    /\ is_running(loop)
    /\ loop.primed
    /\ tick.pc = "idle"
    /\ IF ~ready
       THEN /\ lastOp' = [op |-> "tick", step |-> "not_ready", ended |-> FALSE]
            /\ UNCHANGED tick
       ELSE LET snap == DB.recs
                r == RunFrom(snap, 1, <<>>, guild)
            IN /\ tick' = IF r.pc = "end" THEN TickIdle
                          ELSE Fetching(snap[r.idx], snap, r.idx, r.log, FALSE, 0,
                                        unregistered)
               /\ lastOp' = [op |-> "tick", step |-> "start", ended |-> r.pc = "end",
                             recs |-> snap, log |-> r.log, count |-> 0]
    /\ UNCHANGED <<guild, call, DB, file, phase, mb, messages, nextId>>
    /\ UNCHANGED <<ready, loop, onReady, refresh, deleted, unregistered, calm>>

\* edit_jump_message returned for the record of the tick: the loop goes on
TickAfter(result) ==
    LET n == Len(tick.recs)
        r == RunFrom(tick.recs, AfterRecord(tick.idx, n, result),
                     Append(tick.log, Entry(tick.rec, result)), guild)
    IN /\ tick' = IF r.pc = "end" THEN TickIdle
                  ELSE Fetching(tick.recs[r.idx], tick.recs, r.idx, r.log, FALSE, 0,
                                tick.gone)
       /\ lastOp' = StepDone("tick", tick, result, r, tick.recs, 0)

\* fetch_message of the tick returned or raised, the store left aside
TickFetchedCore(ok) ==
    /\ phase = "running"
    /\ tick.pc = "fetching"
    /\ ApiOutcome(ok, tick.rec.message_id)
    /\ IF ok
       THEN /\ tick' = [tick EXCEPT !.pc = "editing",
                          !.rows = build_buttons_for(guild, tick.rec.channel_ids).rows]
            /\ lastOp' = [op |-> "tick", step |-> "rendered", ended |-> FALSE,
                          message_id |-> tick.rec.message_id]
       ELSE TickAfter("fetch_failed")
    /\ UNCHANGED <<guild, call, phase, mb, messages, nextId>>
    /\ UNCHANGED <<ready, loop, onReady, refresh, deleted, unregistered, calm>>

\* the tick drops from the store the record whose message it cannot fetch
TickFetchedPrunes(ok) ==
    /\ TickFetchedCore(ok)
    /\ DB' = IF ok THEN DB ELSE RemoveMatching(DB, tick.rec.message_id)
    /\ UNCHANGED file

\* fetch_message of the tick returned (the view is rendered, msg.edit is
\* awaited) or raised (the loop goes on)
TickFetched(ok) == TickFetchedCore(ok) /\ UNCHANGED <<DB, file>>

\* msg.edit of the tick returned or raised
TickEdited(ok) ==
    /\ phase = "running"
    /\ tick.pc = "editing"
    /\ ApiOutcome(ok, tick.rec.message_id)
    /\ IF ok
       THEN /\ messages' = ApplyEdit(messages, tick.rec.message_id, tick.rows)
            /\ refresh' = NoteRace(refresh, tick.rec.message_id, tick.rows)
            /\ TickAfter("edited")
       ELSE /\ TickAfter("edit_failed")
            /\ UNCHANGED <<messages, refresh>>
    /\ UNCHANGED <<guild, call, DB, file, phase, mb, nextId>>
    /\ UNCHANGED <<ready, loop, onReady, deleted, unregistered, calm>>

\* if ok: count += 1, for every attempt of the pass
CountedAlways(count, ok) == count + 1

\* if ok: count += 1
Counted(count, ok) == IF ok THEN count + 1 ELSE count

\* the list the for loop of buttons_refresh iterates
RefreshRecs == IF refresh.live THEN DB.recs ELSE refresh.recs

\* buttons_refresh outside a guild
RefreshNoGuild ==
    /\ phase = "running"
    /\ refresh.pc = "idle"
    /\ lastOp' = [op |-> "buttons_refresh", step |-> "not_in_guild", ended |-> FALSE]
    /\ UNCHANGED <<guild, call, DB, file, phase, mb, messages, nextId>>
    /\ UNCHANGED bgVars

\* buttons_refresh resumes after defer: the loop over DB["jump_sets"] itself
\* runs to the first fetch_message, or to the reply when no record is attempted
RefreshStart ==
    /\ phase = "running"
    /\ refresh.pc = "idle"
    /\ LET r == RunFrom(DB.recs, 1, <<>>, guild)
       IN /\ refresh' = IF r.pc = "end" THEN RefreshIdle
                        ELSE Fetching(DB.recs[r.idx], <<>>, r.idx, r.log, TRUE, 0,
                                      unregistered)
          /\ lastOp' = [op |-> "buttons_refresh", step |-> "start",
                        ended |-> r.pc = "end", recs |-> DB.recs, log |-> r.log,
                        count |-> 0]
    /\ UNCHANGED <<guild, call, DB, file, phase, mb, messages, nextId>>
    /\ UNCHANGED <<ready, loop, onReady, tick, deleted, unregistered, calm>>

\* edit_jump_message returned ok for the record of buttons_refresh: the count,
\* the next records, and the reply after the last one
RefreshAfter(result) ==
    LET recs == RefreshRecs
        count == Counted(refresh.count, result = "edited")
        r == RunFrom(recs, AfterRecord(refresh.idx, Len(recs), result),
                     Append(refresh.log, Entry(refresh.rec, result)), guild)
    IN /\ refresh' = IF r.pc = "end" THEN RefreshIdle
                     ELSE Fetching(recs[r.idx], refresh.recs, r.idx, r.log,
                                   refresh.live, count, refresh.gone)
       /\ lastOp' = StepDone("buttons_refresh", refresh, result, r, recs, count)

\* fetch_message of buttons_refresh returned or raised
RefreshFetched(ok) ==
    /\ phase = "running"
    /\ refresh.pc = "fetching"
    /\ ApiOutcome(ok, refresh.rec.message_id)
    /\ IF ok
       THEN /\ refresh' = [refresh EXCEPT !.pc = "editing",
                             !.rows = build_buttons_for(guild, refresh.rec.channel_ids).rows]
            /\ lastOp' = [op |-> "buttons_refresh", step |-> "rendered",
                          ended |-> FALSE, message_id |-> refresh.rec.message_id]
       ELSE RefreshAfter("fetch_failed")
    /\ UNCHANGED <<guild, call, DB, file, phase, mb, messages, nextId>>
    /\ UNCHANGED <<ready, loop, onReady, tick, deleted, unregistered, calm>>

\* msg.edit of buttons_refresh returned or raised
RefreshEdited(ok) ==
    /\ phase = "running"
    /\ refresh.pc = "editing"
    /\ ApiOutcome(ok, refresh.rec.message_id)
    /\ IF ok
       THEN /\ messages' = ApplyEdit(messages, refresh.rec.message_id, refresh.rows)
            /\ tick' = NoteRace(tick, refresh.rec.message_id, refresh.rows)
            /\ RefreshAfter("edited")
       ELSE /\ RefreshAfter("edit_failed")
            /\ UNCHANGED <<messages, tick>>
    /\ UNCHANGED <<guild, call, DB, file, phase, mb, nextId>>
    /\ UNCHANGED <<ready, loop, onReady, deleted, unregistered, calm>>

\* DB["jump_sets"] is bound to a new list: a buttons_refresh in flight keeps
\* iterating the list it began with
Detach(task, recs) ==
    IF task.pc # "idle" /\ task.live
    THEN [task EXCEPT !.live = FALSE, !.recs = recs]
    ELSE task

\* buttons_remove by an admin while passes may be in flight
ButtonsRemoveInFlight(mid, outcome) ==
    /\ RemoveRecord(mid, outcome)
    /\ refresh' = Detach(refresh, DB.recs)
    /\ unregistered' = IF Len(RemoveMatching(DB, mid).recs) # Len(DB.recs)
                       THEN unregistered \cup {mid}
                       ELSE unregistered
    /\ UNCHANGED <<ready, loop, onReady, tick, deleted, calm>>

\* a member joins or leaves a voice channel
GuildVoiceUpdate(c, n) ==
    /\ phase = "running"
    /\ ~calm
    /\ VoiceUpdate(c, n)
    /\ UNCHANGED <<call, DB, file, phase, mb, messages, nextId, lastOp>>
    /\ UNCHANGED bgVars

\* a channel of the guild is deleted while passes may be in flight
GuildChannelGone(c) ==
    /\ ~calm
    /\ GuildChannelDelete(c)

\* somebody deletes a published message
MessageDelete(m) ==
    /\ phase = "running"
    /\ ~calm
    /\ MessageExists(m)
    /\ deleted' = deleted \cup {m}
    /\ UNCHANGED <<guild, call, DB, file, phase, mb, messages, nextId, lastOp>>
    /\ UNCHANGED <<ready, loop, onReady, tick, refresh, unregistered, calm>>

----------------------------------------------------------------------------
(* SpecTick: on_ready and the ticks of refresh_jump_messages over a store *)
(* that holds healthy and broken records in any order *)

\* the records of the store when the process is up
TickLen == 3

\* a panel of this guild published in the host channel, its message is m
Panel(m) == Record(1, HostChannel, m, IF m = 1 THEN <<1, 2>> ELSE <<2>>, 5)

\* a panel of a guild the bot cannot resolve
Foreign == Record(2, HostChannel, 8, <<1>>, 5)

\* a panel published from the text chat of voice channel 2, its message is 3
VoiceHosted == Record(1, 2, 3, <<1, 2>>, 5)

TickRecords == {Panel(1), Panel(2), Foreign, VoiceHosted, OldRecord(7)}

\* the view a panel was published with
Published(rec) == [view |-> make_view_from_rows(build_buttons_for(SmallGuild, rec.channel_ids).rows)]

\* the store after a startup that loaded recs, the messages of the panels
\* 1..n on the platform
Running(recs, n) ==
    /\ guild = SmallGuild
    /\ call = NoCall
    /\ DB = Store(recs)
    /\ file = Doc(Store(recs), TRUE)
    /\ phase = "running"
    /\ mb = Idle
    /\ messages = [m \in 1..n |-> Published(IF m = 3 THEN VoiceHosted ELSE Panel(m))]
    /\ nextId = n
    /\ lastOp = [op |-> "startup", result |-> "ok"]

\* on_ready has run: the platform is ready and the loop iterates
BgUp ==
    /\ ready = TRUE
    /\ loop = [timers |-> 1, raised |-> FALSE, primed |-> TRUE]
    /\ onReady = 0
    /\ tick = TickIdle
    /\ refresh = RefreshIdle
    /\ deleted = {}
    /\ unregistered = {}
    /\ calm = FALSE

InitTick ==
    /\ \E recs \in [1..TickLen -> TickRecords] :
          /\ NoDuplicates(recs)
          /\ Running(recs, 3)
    /\ BgUp

NextTick ==
    \/ TickStart
    \/ \E ok \in BOOLEAN : TickFetched(ok)
    \/ \E ok \in BOOLEAN : TickEdited(ok)
    \/ \E n \in 0..MaxMembers : GuildVoiceUpdate(2, n)
    \/ \E c \in Deletable : GuildChannelGone(c)
    \/ \E m \in 1..2 : MessageDelete(m)

SpecTick == InitTick /\ [][NextTick]_vars

----------------------------------------------------------------------------
(* SpecReady: READY and reconnects, on_ready, the start of the loop and its *)
(* iterations over a store of two records *)

InitReady ==
    /\ Running(<<Foreign, Panel(1)>>, 1)
    /\ BgInit

NextReady ==
    \/ OnReady
    \/ OnReadySynced
    \/ Disconnect
    \/ BeforeLoop
    \/ TickStart
    \/ \E ok \in BOOLEAN : TickFetched(ok)
    \/ \E ok \in BOOLEAN : TickEdited(ok)
    \/ \E n \in 0..MaxMembers : GuildVoiceUpdate(2, n)

SpecReady == InitReady /\ [][NextReady]_vars

----------------------------------------------------------------------------
(* SpecRace: ticks and buttons_refresh interleaved at their awaits, while *)
(* the guild changes *)

InitRace ==
    /\ Running(<<Foreign, VoiceHosted, Panel(1)>>, 3)
    /\ BgUp

NextRace ==
    \/ TickStart
    \/ \E ok \in BOOLEAN : TickFetched(ok)
    \/ \E ok \in BOOLEAN : TickEdited(ok)
    \/ RefreshNoGuild
    \/ RefreshStart
    \/ \E ok \in BOOLEAN : RefreshFetched(ok)
    \/ \E ok \in BOOLEAN : RefreshEdited(ok)
    \/ \E n \in 0..MaxMembers : GuildVoiceUpdate(2, n)
    \/ \E c \in Deletable : GuildChannelGone(c)
    \/ MessageDelete(1)

SpecRace == InitRace /\ [][NextRace]_vars

----------------------------------------------------------------------------
(* SpecUnreg: make_buttons and buttons_remove while ticks and buttons_refresh *)
(* are in flight, every API call succeeding *)

\* how save_data ends in SpecUnreg
UnregOutcomes == {"ok", "write_fail"}

InitUnreg ==
    /\ Running(<<Foreign, Panel(1)>>, 1)
    /\ BgUp

NextUnreg ==
    \/ TickStart
    \/ TickFetched(TRUE)
    \/ TickEdited(TRUE)
    \/ RefreshStart
    \/ RefreshFetched(TRUE)
    \/ RefreshEdited(TRUE)
    \/ MakeButtons(5, <<1, 9, 2>>)
    \/ \E outcome \in UnregOutcomes : MakeButtonsSent(outcome)
    \/ \E mid \in (1..MaxMsgs) \cup {8}, outcome \in UnregOutcomes :
          ButtonsRemoveInFlight(mid, outcome)

SpecUnreg == InitUnreg /\ [][NextUnreg]_vars

----------------------------------------------------------------------------
(* SpecLive: the loop scheduled fairly, the guild and the platform settling *)

\* from here on the platform stays ready, the guild snapshot stops changing
\* and API calls on existing messages succeed
Settle ==
    /\ phase = "running"
    /\ ready
    /\ ~calm
    /\ calm' = TRUE
    /\ UNCHANGED <<guild, call, DB, file, phase, mb, messages, nextId, lastOp>>
    /\ UNCHANGED <<ready, loop, onReady, tick, refresh, deleted, unregistered>>

InitLive ==
    /\ Running(<<Foreign, VoiceHosted, Panel(1)>>, 3)
    /\ BgUp

NextLive ==
    \/ TickStart
    \/ \E ok \in BOOLEAN : TickFetched(ok)
    \/ \E ok \in BOOLEAN : TickEdited(ok)
    \/ RefreshStart
    \/ \E ok \in BOOLEAN : RefreshFetched(ok)
    \/ \E ok \in BOOLEAN : RefreshEdited(ok)
    \/ \E n \in 0..MaxMembers : GuildVoiceUpdate(2, n)
    \/ \E c \in Deletable : GuildChannelGone(c)
    \/ MessageDelete(1)
    \/ Settle

\* tasks.loop runs the next iteration 15 seconds after the previous one
\* returned, and every awaited API call returns or raises
SpecLive ==
    /\ InitLive
    /\ [][NextLive]_vars
    /\ WF_vars(TickStart)
    /\ WF_vars(\E ok \in BOOLEAN : TickFetched(ok))
    /\ WF_vars(\E ok \in BOOLEAN : TickEdited(ok))

----------------------------------------------------------------------------
(* Claims about the reconciler *)

\* an iteration of refresh_jump_messages has just run to its end
TickEnded == lastOp.op = "tick" /\ lastOp.ended

\* C11: when a tick ends, every record of its snapshot has been handled, in
\* snapshot order, whatever failed before it: a record is passed over only
\* for its own guild or host channel, and a record of this guild in a text
\* host channel was edited unless its own fetch or its own edit failed. An
\* edit that succeeded put the rendered view on the message.
C11_TickIsolation ==
    /\ TickEnded =>
          /\ Len(lastOp.log) = Len(lastOp.recs)
          /\ \A i \in 1..Len(lastOp.recs) :
                LET rec == lastOp.recs[i]
                    res == lastOp.log[i].result
                    host == resolve_channel(guild, rec.message_channel_id)
                IN /\ lastOp.log[i].message_id = rec.message_id
                   /\ res \in Failures \cup {"edited"}
                   /\ res = "no_guild" <=> rec.guild_id # guild.id
                   /\ (rec.guild_id = guild.id /\ IsMessageChannel(host)) =>
                         res \in {"edited", "fetch_failed", "edit_failed"}
                   /\ res \in {"fetch_failed", "edit_failed"} =>
                         (rec.guild_id = guild.id /\ IsMessageChannel(host))
    /\ (lastOp.op = "tick" /\ lastOp.step = "edited") =>
          messages[lastOp.message_id].view = make_view_from_rows(lastOp.rows)

\* a tick ended in which the first two records of the snapshot failed (host
\* channel or fetch, then guild or edit) and the third was edited
C11_Witness ==
    /\ TickEnded
    /\ Len(lastOp.log) = TickLen
    /\ lastOp.log[1].result \in {"no_channel", "fetch_failed"}
    /\ lastOp.log[2].result \in {"no_guild", "edit_failed"}
    /\ lastOp.log[TickLen].result = "edited"

\* C12: however often on_ready runs, at most one timer of the loop is running
\* and no start() call has raised.
C12_StartIdempotent ==
    /\ loop.timers <= 1
    /\ ~loop.raised

\* an on_ready handler reached the start of the loop while it was running
C12_Witness ==
    /\ lastOp.op = "on_ready"
    /\ lastOp.step = "start"
    /\ lastOp.was_running
    /\ loop.timers = 1

Passes == {"tick", "buttons_refresh"}

\* C13: when buttons_refresh replies, it has attempted an edit only for
\* records of the invoking guild (every other record was passed over without
\* a call) and the count of the reply is the number of records whose edit
\* succeeded in this pass.
C13_RefreshScopedAndCounted ==
    (lastOp.op = "buttons_refresh" /\ lastOp.ended) =>
        /\ \A i \in 1..Len(lastOp.log) :
              lastOp.log[i].result # "no_guild" <=> lastOp.log[i].guild_id = guild.id
        /\ lastOp.count =
              Cardinality({i \in 1..Len(lastOp.log) : lastOp.log[i].result = "edited"})

\* a refresh replied 1 after passing over the other guild's record, failing
\* on the record hosted in a voice channel and editing the third
C13_Witness ==
    /\ lastOp.op = "buttons_refresh"
    /\ lastOp.ended
    /\ lastOp.count = 1
    /\ \E i, j, k \in 1..Len(lastOp.log) :
          /\ lastOp.log[i].result = "no_guild"
          /\ lastOp.log[j].result = "no_channel"
          /\ lastOp.log[k].result = "edited"

\* C16: no step of a tick and no step of buttons_refresh changes
\* DB["jump_sets"] or the backing file, whatever happened to the record.
C16_ReconcileReadOnly ==
    [][(tick' # tick \/ refresh' # refresh) => (DB' = DB /\ file' = file)]_vars

\* a tick ended after a record of each kind failed and channel 2, listed in
\* stored channel_ids, was deleted: the store and the file are as at startup
C16_Witness ==
    /\ TickEnded
    /\ \E i, j, k \in 1..Len(lastOp.log) :
          /\ lastOp.log[i].result = "no_guild"
          /\ lastOp.log[j].result = "no_channel"
          /\ lastOp.log[k].result = "fetch_failed"
    /\ ~Resolves(guild, 2)
    /\ DB = Store(<<Foreign, VoiceHosted, Panel(1)>>)
    /\ file = Doc(DB, TRUE)

\* C19 as stated: once two overlapping edits of a message are both applied
\* and one of them was rendered against the snapshot that is current, the
\* message shows the render against the current snapshot.
C19_AsStated ==
    (lastOp.op \in Passes /\ lastOp.step = "edited" /\ lastOp.raced) =>
        ((lastOp.rows = lastOp.current \/ lastOp.other = lastOp.current) =>
            messages[lastOp.message_id].view = make_view_from_rows(lastOp.current))

\* C19 (amended): once two overlapping edits of a message are both applied,
\* the message shows the render of the edit applied last: the render against
\* the current snapshot when that edit rendered against it, in particular
\* when nothing changed between the two renders, and a stale render otherwise.
C19_LastEditWins ==
    (lastOp.op \in Passes /\ lastOp.step = "edited" /\ lastOp.raced) =>
        /\ messages[lastOp.message_id].view = make_view_from_rows(lastOp.rows)
        /\ lastOp.rows = lastOp.current =>
              messages[lastOp.message_id].view = make_view_from_rows(lastOp.current)
        /\ lastOp.rows = lastOp.other =>
              messages[lastOp.message_id].view = make_view_from_rows(lastOp.other)

\* the edit applied last was rendered before the occupancy changed, the other
\* one after it
C19_Witness ==
    /\ lastOp.op \in Passes
    /\ lastOp.step = "edited"
    /\ lastOp.raced
    /\ lastOp.other = lastOp.current
    /\ lastOp.rows # lastOp.current

\* the message of an unregistered panel is still on the platform
KeptRemote == \A m \in unregistered : m \in 1..Len(messages) => MessageExists(m)

\* C15 as stated: remove_jump_set_record never deletes the remote message,
\* and no pass edits a message after remove_jump_set_record returned True
\* for it, a pass in flight at the removal included.
C15_AsStated ==
    /\ KeptRemote
    /\ (lastOp.op \in Passes /\ lastOp.step = "edited") => ~lastOp.late

\* C15 (amended): remove_jump_set_record never deletes the remote message,
\* and a pass that began after remove_jump_set_record returned True for a
\* message never edits it; a tick or a buttons_refresh that was in flight at
\* the removal still edits it when it reaches its record.
C15_UnregisterStopsLaterPasses ==
    /\ KeptRemote
    /\ (lastOp.op \in Passes /\ lastOp.step = "edited" /\ lastOp.late) => ~lastOp.known

\* a pass that began before the removal edited the unregistered message,
\* which is still on the platform
C15_Witness ==
    /\ lastOp.op \in Passes
    /\ lastOp.step = "edited"
    /\ lastOp.late
    /\ ~lastOp.known
    /\ MessageExists(lastOp.message_id)
    /\ lastOp.message_id \notin MessageIds(DB)

\* C17: no two records of DB["jump_sets"] carry the same message_id.
C17_UniqueMessageIds ==
    \A i, j \in 1..Len(DB.recs) :
        DB.recs[i].message_id = DB.recs[j].message_id => i = j

\* a panel was registered after another was unregistered and a tick has run
C17_Witness ==
    /\ TickEnded
    /\ unregistered # {}
    /\ Len(DB.recs) >= 2
    /\ nextId > 1
    /\ nextId \in MessageIds(DB)

\* add_jump_set_record or remove_jump_set_record changed the collection and
\* called save_data, which returned
Saved ==
    \/ lastOp.op = "make_buttons" /\ lastOp.result = "ok"
    \/ lastOp.op = "buttons_remove" /\ lastOp.result = "done" /\ lastOp.ret

\* C18: after add_jump_set_record or remove_jump_set_record, whether the
\* write failed or not, the process is running and its collection holds the
\* mutation; when the write succeeded a load of the file yields the
\* in-memory collection, earlier mutations whose writes failed included.
C18_FailedWriteRecoverable ==
    Saved =>
        /\ phase = "running"
        /\ WellFormed(DB)
        /\ lastOp.op = "make_buttons" =>
              (DB.recs # <<>> /\ LastRecord(DB) = lastOp.record)
        /\ lastOp.op = "buttons_remove" => lastOp.message_id \notin MessageIds(DB)
        /\ lastOp.outcome = "ok" => load_data(file) = DB

\* a write succeeded after an earlier write had failed: the file holds both
\* the earlier and the new mutation
C18_Witness ==
    /\ Saved
    /\ lastOp.op = "make_buttons"
    /\ lastOp.outcome = "ok"
    /\ lastOp.stale
    /\ Len(DB.recs) >= 2
    /\ load_data(file) = DB

\* the message of the record shows the render of its channel_ids against
\* the guild as it is now
UpToDate(rec) ==
    messages[rec.message_id].view =
        make_view_from_rows(build_buttons_for(guild, rec.channel_ids).rows)

\* the record's guild resolves, its host channel exists and its message exists
Exists(rec) ==
    /\ rec.guild_id = guild.id
    /\ Resolves(guild, rec.message_channel_id)
    /\ MessageExists(rec.message_id)

\* C20: once the platform is ready, the snapshot has stopped changing and
\* edits succeed, eventually every stored record whose guild, host channel
\* and message exist shows the render against the current snapshot, for good.
C20_EventuallyUpToDate ==
    calm ~> [](\A i \in 1..Len(DB.recs) : Exists(DB.recs[i]) => UpToDate(DB.recs[i]))

====
